---- MODULE Spec2Model ----
(***************************************************************************)
(* GroqModel (src/app/llm/model/model.py): a chat client that owns a pool  *)
(* of API keys, a cursor into the pool, a per-key usage counter and one    *)
(* ChatGroq delegate bound to the active key.                              *)
(*                                                                         *)
(* Python strings are sequences of one-character strings, so that split    *)
(* and strip are computed.  None is the empty tuple <<>> and a present     *)
(* optional value v is <<v>>.  The attributes of the instance are the      *)
(* fields of the record self; before __init__ has assigned any attribute   *)
(* self is the empty function.                                             *)
(***************************************************************************)
EXTENDS Integers, Sequences, FiniteSets, TLC

VARIABLES
    environ,        \* value of GROQ_API_KEYS in the environment: <<>> unset, <<s>> set to s
    ctor,           \* "pending" before GroqModel(), then "ok" or "ValueError"
    self,           \* the instance's attributes
    clients_built,  \* number of ChatGroq objects constructed so far (object identity)
    pc,             \* per caller: "idle", "ainvoke" (suspended at line 84), "resume" (delegate done)
    frame,          \* per caller: the arguments and locals of its running chat coroutine
    reply,          \* per caller: what the delegate's ainvoke produced for its request
    result,         \* per caller: outcome of its last finished chat call
    calls_made,     \* number of chat calls started
    forced          \* number of direct _switch_key() calls made

vars == <<environ, ctor, self, clients_built, pc, frame, reply, result, calls_made, forced>>

----------------------------------------------------------------------------
(* Bounds *)

MaxCalls == 3
MaxForced == 16
NumCallers == 2

Callers == 1..NumCallers

----------------------------------------------------------------------------
(* Program constants *)

SoftQuota == 1000000
LowQuotaThreshold == 3000
ContextLimit == 8192

model_name == "llama-3.1-70b-versatile"

----------------------------------------------------------------------------
(* Python values *)

None == <<>>
Some(v) == <<v>>

IsSpace(ch) == ch \in {" ", "\t", "\n"}

\* str.split(sep): cut at every occurrence of sep, keeping empty pieces
RECURSIVE split(_, _)
split(s, sep) ==
    IF s = <<>> THEN << <<>> >>
    ELSE LET rest == split(Tail(s), sep) IN
         IF Head(s) = sep THEN << <<>> >> \o rest
         ELSE << <<Head(s)>> \o Head(rest) >> \o Tail(rest)

RECURSIVE lstrip(_)
lstrip(s) ==
    IF s = <<>> THEN s
    ELSE IF IsSpace(Head(s)) THEN lstrip(Tail(s)) ELSE s

RECURSIVE rstrip(_)
rstrip(s) ==
    IF s = <<>> THEN s
    ELSE IF IsSpace(s[Len(s)]) THEN rstrip(SubSeq(s, 1, Len(s) - 1)) ELSE s

\* str.strip()
strip(s) == rstrip(lstrip(s))

\* the leading run of non-whitespace characters of s
RECURSIVE first_word(_)
first_word(s) ==
    IF s = <<>> \/ IsSpace(Head(s)) THEN <<>>
    ELSE <<Head(s)>> \o first_word(Tail(s))

\* str.split() without separator: the maximal runs of non-whitespace
RECURSIVE split_whitespace(_)
split_whitespace(s) ==
    IF s = <<>> THEN <<>>
    ELSE IF IsSpace(Head(s)) THEN split_whitespace(Tail(s))
    ELSE LET w == first_word(s) IN
         <<w>> \o split_whitespace(SubSeq(s, Len(w) + 1, Len(s)))

\* mutant: the words counted with split(" "), which keeps empty pieces
word_count_sep(content) == Len(split(content, " "))

\* len(response.content.split())
word_count(content) == Len(split_whitespace(content))

\* the set of elements of a list
Elems(seq) == {seq[i] : i \in 1..Len(seq)}

----------------------------------------------------------------------------
(* Inputs *)

\* values of GROQ_API_KEYS: unset, "", " ", "a", "a,b", " a ,b", "a,a", "a,b,ab", "a,a,b"
EnvValues ==
    { None,
      Some(<<>>),
      Some(<<" ">>),
      Some(<<"a">>),
      Some(<<"a", ",", "b">>),
      Some(<<" ", "a", " ", ",", "b">>),
      Some(<<"a", ",", "a">>),
      Some(<<"a", ",", "b", ",", "a", "b">>),
      Some(<<"a", ",", "a", ",", "b">>) }

\* prompt arguments: "", "hi"
Prompts == { <<>>, <<"h", "i">> }

\* system_prompt arguments: None (the default), "", "s"
SystemPrompts == { None, Some(<<>>), Some(<<"s">>) }

\* results of the delegate's get_num_tokens_from_messages
TokenCounts == { 1, 997000 }

\* response.content returned by the delegate: "", "ok", " a  b "
Responses ==
    { <<>>,
      <<"o", "k">>,
      <<" ", "a", " ", " ", "b", " ">> }

----------------------------------------------------------------------------
(* GroqModel *)

\* ChatGroq(model=self.model_name, groq_api_key=key); serial tells objects apart
_init_client(key, serial) ==
    [model |-> model_name, groq_api_key |-> key, serial |-> serial]

\* the active key, self.api_keys[self.current_index] (Python lists are 0-based)
current_key(s) == s.api_keys[s.current_index + 1]

\* mutant: the cursor is advanced without wrapping; only the key lookup wraps
_switch_key_drift(s, serial) ==
    LET idx == s.current_index + 1
        new_key == s.api_keys[(idx % Len(s.api_keys)) + 1]
    IN [s EXCEPT !.current_index = idx,
                 !.client = _init_client(new_key, serial)]

\* mutant: the cursor stops at the last key instead of wrapping to the first
_switch_key_nowrap(s, serial) ==
    LET idx == IF s.current_index + 1 < Len(s.api_keys)
                  THEN s.current_index + 1 ELSE s.current_index
        new_key == s.api_keys[idx + 1]
    IN [s EXCEPT !.current_index = idx,
                 !.client = _init_client(new_key, serial)]

\* mutant: the client is kept when the next key equals the one it is bound to
_switch_key_reuse(s, serial) ==
    LET idx == (s.current_index + 1) % Len(s.api_keys)
        new_key == s.api_keys[idx + 1]
    IN [s EXCEPT !.current_index = idx,
                 !.client = IF new_key = s.client.groq_api_key
                               THEN s.client ELSE _init_client(new_key, serial)]

\* mutant: the new client is built from old_key instead of new_key
_switch_key_old_key(s, serial) ==
    LET old_key == s.api_keys[s.current_index + 1]
        idx == (s.current_index + 1) % Len(s.api_keys)
    IN [s EXCEPT !.current_index = idx,
                 !.client = _init_client(old_key, serial)]

\* mutant: the key rotated to starts with a fresh counter
_switch_key_fresh(s, serial) ==
    LET idx == (s.current_index + 1) % Len(s.api_keys)
        new_key == s.api_keys[idx + 1]
    IN [s EXCEPT !.current_index = idx,
                 !.client = _init_client(new_key, serial),
                 !.usage_tracker[new_key] = 0]

\* _switch_key on instance s; serial numbers the ChatGroq object it builds
_switch_key(s, serial) ==
    LET idx == (s.current_index + 1) % Len(s.api_keys)
        new_key == s.api_keys[idx + 1]
    IN [s EXCEPT !.current_index = idx,
                 !.client = _init_client(new_key, serial)]

\* remaining_quota of the active key
remaining_quota(s) == SoftQuota - s.usage_tracker[current_key(s)]

\* mutant: the key counts as low only once its quota is used up
quota_low_exhausted(s) == remaining_quota(s) <= 0

\* mutant: a key with exactly the threshold left counts as low (<=)
quota_low_inclusive(s) == remaining_quota(s) <= LowQuotaThreshold

\* the test of _check_and_switch_key
quota_low(s) == remaining_quota(s) < LowQuotaThreshold

\* mutant: the rotation goes on to the first following key that is not low
\* (one step when every key is low)
_check_and_switch_key_seek(s, serial) ==
    IF quota_low(s)
       THEN LET n == Len(s.api_keys)
                ok == {k \in 1..n :
                         SoftQuota - s.usage_tracker[s.api_keys[((s.current_index + k) % n) + 1]]
                            >= LowQuotaThreshold}
                step == IF ok = {} THEN 1
                        ELSE CHOOSE k \in ok : \A j \in ok : k <= j
                idx == (s.current_index + step) % n
            IN [s EXCEPT !.current_index = idx,
                         !.client = _init_client(s.api_keys[idx + 1], serial)]
       ELSE s

\* _check_and_switch_key on instance s
_check_and_switch_key(s, serial) ==
    IF quota_low(s) THEN _switch_key(s, serial) ELSE s

\* the message list chat builds
build_messages(prompt, system_prompt) ==
    (IF (IF system_prompt = None THEN FALSE ELSE system_prompt[1] # <<>>)
        THEN << [type |-> "system", content |-> system_prompt[1]] >>
        ELSE <<>>)
    \o << [type |-> "human", content |-> prompt] >>

\* get_remaining_tokens given the delegate's count
get_remaining_tokens(used) == ContextLimit - used

NoFrame == <<>>
NoReply == [kind |-> "none"]
NoResult == [kind |-> "none"]

Init ==
    /\ environ \in EnvValues
    /\ ctor = "pending"
    /\ self = <<>>
    /\ clients_built = 0
    /\ pc = [c \in Callers |-> "idle"]
    /\ frame = [c \in Callers |-> NoFrame]
    /\ reply = [c \in Callers |-> NoReply]
    /\ result = [c \in Callers |-> NoResult]
    /\ calls_made = 0
    /\ forced = 0

\* mutant: only a missing variable is rejected (`raw_keys is None`)
not_raw_keys_none_only(raw_keys) == raw_keys = None

\* the test `not raw_keys` of line 21: os.getenv gave None or ""
not_raw_keys(raw_keys) == IF raw_keys = None THEN TRUE ELSE raw_keys[1] = <<>>

\* the list comprehension of line 24
parse_keys(raw_keys) ==
    LET pieces == split(raw_keys, ",") IN
    [i \in 1..Len(pieces) |-> strip(pieces[i])]

\* mutant: the first client is bound to the last key of the list
__init__last_key(raw_keys, serial) ==
    LET api_keys == parse_keys(raw_keys) IN
    [api_keys |-> api_keys,
     current_index |-> 0,
     model_name |-> model_name,
     context_limit |-> ContextLimit,
     client |-> _init_client(api_keys[Len(api_keys)], serial),
     usage_tracker |-> [key \in Elems(api_keys) |-> 0]]

\* the attributes __init__ assigns, lines 24-31; serial numbers the ChatGroq object
__init__(raw_keys, serial) ==
    LET api_keys == parse_keys(raw_keys) IN
    [api_keys |-> api_keys,
     current_index |-> 0,
     model_name |-> model_name,
     context_limit |-> ContextLimit,
     client |-> _init_client(api_keys[0 + 1], serial),
     usage_tracker |-> [key \in Elems(api_keys) |-> 0]]

\* GroqModel() when GROQ_API_KEYS is missing or empty: raises before any attribute is set
InitRaise ==
    /\ ctor = "pending"
    /\ not_raw_keys(environ)
    /\ ctor' = "ValueError"
    /\ UNCHANGED <<environ, self, clients_built, pc, frame, reply, result, calls_made, forced>>

\* GroqModel() running to completion
InitOk ==
    /\ ctor = "pending"
    /\ ~not_raw_keys(environ)
    /\ self' = __init__(environ[1], clients_built + 1)
    /\ clients_built' = clients_built + 1
    /\ ctor' = "ok"
    /\ UNCHANGED <<environ, pc, frame, reply, result, calls_made, forced>>

\* chat from its first line up to the suspension in self.client.ainvoke(messages);
\* tokens is what the delegate's token counter returns for the messages
ChatSend(c, prompt, system_prompt, tokens) ==
    /\ ctor = "ok"
    /\ pc[c] = "idle"
    /\ calls_made < MaxCalls
    /\ LET messages == build_messages(prompt, system_prompt)
           used == tokens
           remaining == get_remaining_tokens(tokens)
           s == _check_and_switch_key(self, clients_built + 1)
       IN /\ self' = s
          /\ clients_built' = IF quota_low(self) THEN clients_built + 1 ELSE clients_built
          /\ frame' = [frame EXCEPT ![c] =
                         [prompt |-> prompt,
                          system_prompt |-> system_prompt,
                          messages |-> messages,
                          used |-> used,
                          remaining |-> remaining,
                          checked_key |-> current_key(self),
                          switched |-> quota_low(self),
                          sent_on |-> s.client,
                          ainvoke_calls |-> 1]]
    /\ pc' = [pc EXCEPT ![c] = "ainvoke"]
    /\ result' = [result EXCEPT ![c] = NoResult]
    /\ calls_made' = calls_made + 1
    /\ UNCHANGED <<environ, ctor, reply, forced>>

\* the delegate completes the request of caller c with a response
DelegateRespond(c, content) ==
    /\ pc[c] = "ainvoke"
    /\ reply' = [reply EXCEPT ![c] = [kind |-> "response", content |-> content]]
    /\ pc' = [pc EXCEPT ![c] = "resume"]
    /\ UNCHANGED <<environ, ctor, self, clients_built, frame, result, calls_made, forced>>

\* the delegate fails the request of caller c (network, provider or credential error)
DelegateFail(c) ==
    /\ pc[c] = "ainvoke"
    /\ reply' = [reply EXCEPT ![c] = [kind |-> "error"]]
    /\ pc' = [pc EXCEPT ![c] = "resume"]
    /\ UNCHANGED <<environ, ctor, self, clients_built, frame, result, calls_made, forced>>

\* mutant: the counter is assigned instead of incremented
update_usage_assign(s, used, content) ==
    [s EXCEPT !.usage_tracker[current_key(s)] = used + word_count(content)]

\* the usage update of lines 87-88 on instance s
update_usage(s, used, content) ==
    [s EXCEPT !.usage_tracker[current_key(s)] = @ + used + word_count(content)]

\* mutant: the key read before the rotation check is the one charged
ChatReturn_charge_checked(c) ==
    /\ pc[c] = "resume"
    /\ reply[c].kind = "response"
    /\ self' = [self EXCEPT !.usage_tracker[frame[c].checked_key] =
                    @ + frame[c].used + word_count(reply[c].content)]
    /\ result' = [result EXCEPT ![c] = [kind |-> "returned", content |-> reply[c].content]]
    /\ pc' = [pc EXCEPT ![c] = "idle"]
    /\ frame' = [frame EXCEPT ![c] = NoFrame]
    /\ reply' = [reply EXCEPT ![c] = NoReply]
    /\ UNCHANGED <<environ, ctor, clients_built, calls_made, forced>>

\* mutant: the charge is dropped when the client was replaced during the await
ChatReturn_skip_moved(c) ==
    /\ pc[c] = "resume"
    /\ reply[c].kind = "response"
    /\ self' = IF frame[c].sent_on = self.client
                  THEN update_usage(self, frame[c].used, reply[c].content)
                  ELSE self
    /\ result' = [result EXCEPT ![c] = [kind |-> "returned", content |-> reply[c].content]]
    /\ pc' = [pc EXCEPT ![c] = "idle"]
    /\ frame' = [frame EXCEPT ![c] = NoFrame]
    /\ reply' = [reply EXCEPT ![c] = NoReply]
    /\ UNCHANGED <<environ, ctor, clients_built, calls_made, forced>>

\* chat resumes with the response: lines 86-90
ChatReturn(c) ==
    /\ pc[c] = "resume"
    /\ reply[c].kind = "response"
    /\ self' = update_usage(self, frame[c].used, reply[c].content)
    /\ result' = [result EXCEPT ![c] = [kind |-> "returned", content |-> reply[c].content]]
    /\ pc' = [pc EXCEPT ![c] = "idle"]
    /\ frame' = [frame EXCEPT ![c] = NoFrame]
    /\ reply' = [reply EXCEPT ![c] = NoReply]
    /\ UNCHANGED <<environ, ctor, clients_built, calls_made, forced>>

\* mutant: the prompt's tokens are charged although the delegate failed
ChatRaise_charging(c) ==
    /\ pc[c] = "resume"
    /\ reply[c].kind = "error"
    /\ self' = update_usage(self, frame[c].used, <<>>)
    /\ result' = [result EXCEPT ![c] = [kind |-> "raised"]]
    /\ pc' = [pc EXCEPT ![c] = "idle"]
    /\ frame' = [frame EXCEPT ![c] = NoFrame]
    /\ reply' = [reply EXCEPT ![c] = NoReply]
    /\ UNCHANGED <<environ, ctor, clients_built, calls_made, forced>>

\* mutant: after a failure chat rotates and sends the request once more
ChatRaise_retry(c) ==
    /\ pc[c] = "resume"
    /\ reply[c].kind = "error"
    /\ IF frame[c].ainvoke_calls = 1
          THEN /\ self' = _switch_key(self, clients_built + 1)
               /\ clients_built' = clients_built + 1
               /\ frame' = [frame EXCEPT ![c].sent_on = self'.client,
                                         ![c].ainvoke_calls = 2]
               /\ pc' = [pc EXCEPT ![c] = "ainvoke"]
               /\ UNCHANGED result
          ELSE /\ result' = [result EXCEPT ![c] = [kind |-> "raised"]]
               /\ pc' = [pc EXCEPT ![c] = "idle"]
               /\ frame' = [frame EXCEPT ![c] = NoFrame]
               /\ UNCHANGED <<self, clients_built>>
    /\ reply' = [reply EXCEPT ![c] = NoReply]
    /\ UNCHANGED <<environ, ctor, calls_made, forced>>

\* chat resumes with the delegate's exception, which leaves chat at line 84
ChatRaise(c) ==
    /\ pc[c] = "resume"
    /\ reply[c].kind = "error"
    /\ result' = [result EXCEPT ![c] = [kind |-> "raised"]]
    /\ pc' = [pc EXCEPT ![c] = "idle"]
    /\ frame' = [frame EXCEPT ![c] = NoFrame]
    /\ reply' = [reply EXCEPT ![c] = NoReply]
    /\ UNCHANGED <<environ, ctor, self, clients_built, calls_made, forced>>

\* a direct call of _switch_key()
ForceSwitch ==
    /\ ctor = "ok"
    /\ forced < MaxForced
    /\ self' = _switch_key(self, clients_built + 1)
    /\ clients_built' = clients_built + 1
    /\ forced' = forced + 1
    /\ UNCHANGED <<environ, ctor, pc, frame, reply, result, calls_made>>

NoCallRunning == \A c \in Callers : pc[c] = "idle"

\* mutant: chat rejects an empty prompt before doing anything else
SeqChatSend_rejecting ==
    /\ NoCallRunning
    /\ \E c \in Callers, prompt \in Prompts, system_prompt \in SystemPrompts,
          tokens \in TokenCounts :
          IF prompt = <<>>
             THEN /\ ctor = "ok"
                  /\ calls_made < MaxCalls
                  /\ result' = [result EXCEPT ![c] = [kind |-> "raised"]]
                  /\ calls_made' = calls_made + 1
                  /\ UNCHANGED <<environ, ctor, self, clients_built, pc, frame, reply, forced>>
             ELSE ChatSend(c, prompt, system_prompt, tokens)

\* mutant: chat gives up with an error when every key of the pool is low
SeqChatSend_exhaustion ==
    /\ NoCallRunning
    /\ \E c \in Callers, prompt \in Prompts, system_prompt \in SystemPrompts,
          tokens \in TokenCounts :
          IF (IF ctor = "ok"
                 THEN \A k \in DOMAIN self.usage_tracker :
                         SoftQuota - self.usage_tracker[k] < LowQuotaThreshold
                 ELSE FALSE)
             THEN /\ calls_made < MaxCalls
                  /\ result' = [result EXCEPT ![c] = [kind |-> "raised"]]
                  /\ calls_made' = calls_made + 1
                  /\ UNCHANGED <<environ, ctor, self, clients_built, pc, frame, reply, forced>>
             ELSE ChatSend(c, prompt, system_prompt, tokens)

\* sequential use: a chat call starts only when no other call is running
SeqChatSend ==
    /\ NoCallRunning
    /\ \E c \in Callers, prompt \in Prompts, system_prompt \in SystemPrompts,
          tokens \in TokenCounts :
          ChatSend(c, prompt, system_prompt, tokens)

AnyDelegateRespond == \E c \in Callers, content \in Responses : DelegateRespond(c, content)

AnyDelegateFail == \E c \in Callers : DelegateFail(c)

AnyChatReturn == \E c \in Callers : ChatReturn(c)

AnyChatRaise == \E c \in Callers : ChatRaise(c)

Next ==
    \/ InitRaise
    \/ InitOk
    \/ SeqChatSend
    \/ AnyDelegateRespond
    \/ AnyDelegateFail
    \/ AnyChatReturn
    \/ AnyChatRaise

\* sequential use of one instance
Spec == Init /\ [][Next]_vars

\* overlapping use: a chat call may start while others are suspended at line 84
\* (the calls are chat("hi"); their token counts and outcomes vary)
ConcChatSend ==
    \E c \in Callers, tokens \in TokenCounts :
       ChatSend(c, <<"h", "i">>, None, tokens)

NextConc ==
    \/ InitRaise
    \/ InitOk
    \/ ConcChatSend
    \/ AnyDelegateRespond
    \/ AnyDelegateFail
    \/ AnyChatReturn
    \/ AnyChatRaise

\* several chat coroutines of one event loop sharing the instance
ConcSpec == Init /\ [][NextConc]_vars

NextRot ==
    \/ InitRaise
    \/ InitOk
    \/ ForceSwitch

\* construction followed by direct rotations only
RotSpec == Init /\ [][NextRot]_vars

----------------------------------------------------------------------------
(* Claims *)

\* C1: a chat call made while the active key's remaining soft quota
\* (1,000,000 - usage) is below 3000, on a pool of two or more keys, moves the
\* cursor to the next position before the request is sent, and the client
\* that receives the request is the one bound to the key at that position.
C1_RotatesBeforeSending ==
    [][\A c \in Callers :
          (IF ctor = "ok" /\ pc[c] = "idle" /\ pc'[c] = "ainvoke"
              THEN /\ Len(self.api_keys) >= 2
                   /\ 1000000 - self.usage_tracker[self.api_keys[self.current_index + 1]] < 3000
              ELSE FALSE)
          => /\ self'.current_index = (self.current_index + 1) % Len(self.api_keys)
             /\ self'.current_index # self.current_index
             /\ frame'[c].sent_on = self'.client
             /\ frame'[c].sent_on # self.client
             /\ frame'[c].sent_on.groq_api_key = self.api_keys[self'.current_index + 1]]_vars

\* C1 witness: on a pool of two keys a request is in flight on the second key
\* after the first key ran low and the call rotated.
C1_Witness ==
    /\ ctor = "ok"
    /\ \E c \in Callers :
          /\ pc[c] = "ainvoke"
          /\ frame[c].switched
          /\ Len(self.api_keys) = 2
          /\ self.usage_tracker[self.api_keys[1]] > 997000
          /\ self.current_index = 1
          /\ frame[c].sent_on.groq_api_key = self.api_keys[2]
          /\ self.api_keys[2] # self.api_keys[1]

\* C2: when a chat call that did not rotate returns, the counter of the key
\* that was active when the call was made has grown by exactly the token
\* estimate of the call's messages plus the number of words of the response;
\* nothing else changes a counter during the call.
C2_UsageChargedExactly ==
    [][/\ \A c \in Callers :
             (IF ctor = "ok" /\ pc[c] = "resume" /\ pc'[c] = "idle"
                 THEN reply[c].kind = "response" /\ ~frame[c].switched
                 ELSE FALSE)
             => LET text == reply[c].content
                    words == Cardinality({i \in 1..Len(text) :
                                 /\ text[i] \notin {" ", "\t", "\n"}
                                 /\ (IF i = 1 THEN TRUE
                                     ELSE text[i - 1] \in {" ", "\t", "\n"})})
                    key == frame[c].checked_key
                IN /\ result'[c] = [kind |-> "returned", content |-> text]
                   /\ self'.usage_tracker =
                         [self.usage_tracker EXCEPT ![key] = @ + frame[c].used + words]
       /\ \A c \in Callers :
             (ctor = "ok" /\ pc[c] # "resume" /\ pc'[c] # pc[c])
             => self'.usage_tracker = self.usage_tracker]_vars

\* C2 witness: no rotation has ever happened, a call returned a response of
\* two words, and the first key has been charged 997000 tokens plus 2 words.
C2_Witness ==
    /\ ctor = "ok"
    /\ clients_built = 1
    /\ calls_made = 1
    /\ \E c \in Callers :
          /\ result[c] = [kind |-> "returned", content |-> <<" ", "a", " ", " ", "b", " ">>]
          /\ self.usage_tracker[self.api_keys[1]] = 997002

\* C3: once constructed, 0 <= current_index < len(api_keys) in every state.
C3_IndexInRange ==
    ctor = "ok" => (0 <= self.current_index /\ self.current_index < Len(self.api_keys))

\* C3 witness: on a pool of two keys the cursor has wrapped back to position 0
\* after two rotations.
C3_Witness ==
    /\ ctor = "ok"
    /\ Len(self.api_keys) = 2
    /\ clients_built = 3
    /\ self.current_index = 0

\* C4: after exactly len(api_keys) direct rotations from position 0 the cursor
\* is at position 0 again, and every rotation moves it to (current_index + 1)
\* mod len(api_keys).
C4_RotationCyclic ==
    /\ [](ctor = "ok" =>
             (forced = Len(self.api_keys) => self.current_index = 0))
    /\ [][(ctor = "ok" /\ forced' = forced + 1)
             => self'.current_index = (self.current_index + 1) % Len(self.api_keys)]_vars

\* C4 witness: a pool of three keys after three direct rotations, back at 0.
C4_Witness ==
    /\ ctor = "ok"
    /\ Len(self.api_keys) = 3
    /\ forced = 3
    /\ self.current_index = 0

\* C5: when GROQ_API_KEYS is unset or empty, construction ends in the
\* ValueError and no attribute of the instance (key list, cursor, usage
\* tracker, client) exists.
C5_NoKeysNoInstance ==
    (ctor # "pending" /\ (environ = None \/ environ = Some(<<>>)))
       => /\ ctor = "ValueError"
          /\ DOMAIN self = {}
          /\ clients_built = 0

\* C5 witness: construction was attempted with the variable set to "".
C5_Witness ==
    /\ ctor = "ValueError"
    /\ environ = Some(<<>>)

\* C6: right after construction the cursor is at position 0, the client is
\* bound to the first key of the list, one counter exists per key and every
\* counter is 0.
C6_FreshInstance ==
    (ctor = "ok" /\ calls_made = 0 /\ forced = 0)
       => /\ self.current_index = 0
          /\ Len(self.api_keys) >= 1
          /\ self.client.groq_api_key = self.api_keys[1]
          /\ DOMAIN self.usage_tracker = {self.api_keys[i] : i \in 1..Len(self.api_keys)}
          /\ \A i \in 1..Len(self.api_keys) : self.usage_tracker[self.api_keys[i]] = 0

\* C6 witness: an instance constructed from three distinct keys, not used yet.
C6_Witness ==
    /\ ctor = "ok"
    /\ calls_made = 0
    /\ Len(self.api_keys) = 3
    /\ self.api_keys[3] # self.api_keys[1]
    /\ self.client.groq_api_key = <<"a">>

\* C7: when the delegate fails a request, chat ends with that failure and no
\* response text, and no counter changes: only a call that returns a response
\* changes the usage tracker.
C7_FailureLeavesUsage ==
    [][/\ \A c \in Callers :
             (IF ctor = "ok" /\ pc[c] = "resume" /\ pc'[c] # "resume"
                 THEN reply[c].kind = "error" ELSE FALSE)
             => /\ result'[c] = [kind |-> "raised"]
                /\ pc'[c] = "idle"
                /\ self'.usage_tracker = self.usage_tracker
       /\ (ctor = "ok" /\ self'.usage_tracker # self.usage_tracker)
             => \E c \in Callers :
                   pc[c] = "resume" /\ reply[c].kind = "response" /\ pc'[c] = "idle"]_vars

\* C7 witness: the second call of a caller ended with the delegate's failure
\* after its first call had been charged.
C7_Witness ==
    /\ ctor = "ok"
    /\ calls_made = 2
    /\ \E c \in Callers :
          /\ result[c] = [kind |-> "raised"]
          /\ \A d \in Callers \ {c} : result[d] = [kind |-> "none"]
    /\ \E k \in DOMAIN self.usage_tracker : self.usage_tracker[k] > 0

\* C8: on a pool of one key, every chat call made while that key's remaining
\* quota is below 3000 leaves the cursor at 0, replaces the client by a new
\* one bound to the same key, and goes on to send the request.
C8_SingleKeyRotatesToItself ==
    [][\A c \in Callers :
          (IF ctor = "ok" /\ pc[c] = "idle" /\ pc'[c] # "idle"
              THEN /\ Len(self.api_keys) = 1
                   /\ 1000000 - self.usage_tracker[self.api_keys[1]] < 3000
              ELSE FALSE)
          => /\ self.current_index = 0
             /\ self'.current_index = 0
             /\ self'.client.groq_api_key = self.client.groq_api_key
             /\ self'.client # self.client
             /\ pc'[c] = "ainvoke"
             /\ frame'[c].sent_on = self'.client
             /\ result'[c] = [kind |-> "none"]]_vars

\* C8 witness: a pool of one key whose client has been rebuilt twice.
C8_Witness ==
    /\ ctor = "ok"
    /\ Len(self.api_keys) = 1
    /\ clients_built = 3
    /\ self.current_index = 0
    /\ self.client.groq_api_key = self.api_keys[1]

\* C9: no step lowers a usage counter, and the set of counters never changes.
C9_UsageMonotonic ==
    [][ctor = "ok" =>
          /\ DOMAIN self'.usage_tracker = DOMAIN self.usage_tracker
          /\ \A k \in DOMAIN self.usage_tracker :
                self'.usage_tracker[k] >= self.usage_tracker[k]]_vars

\* C9 witness: after a rotation and a failed call, a key that was already
\* low has been charged again.
C9_Witness ==
    /\ ctor = "ok"
    /\ clients_built >= 2
    /\ \E c \in Callers : result[c] = [kind |-> "raised"]
    /\ \E k \in DOMAIN self.usage_tracker : self.usage_tracker[k] > 2 * 997000

\* C10 as stated: a chat call with an empty prompt never gets as far as the
\* delegate (it would fail with an invalid-input error first).
C10_EmptyPromptRejected ==
    \A c \in Callers : pc[c] # "idle" => frame[c].prompt # <<>>

\* C10 amended: chat does not validate its prompt.  A call ends with an error
\* only when the delegate failed its request, whatever the prompt, and a call
\* with an empty prompt that the delegate answers is charged and returned like
\* any other.
C10_EmptyPromptSent ==
    [][\A c \in Callers :
          /\ (result'[c] = [kind |-> "raised"] /\ result[c] # result'[c])
                => (pc[c] = "resume" /\ reply[c].kind = "error")
          /\ (IF ctor = "ok" /\ pc[c] = "resume" /\ pc'[c] = "idle"
                 THEN frame[c].prompt = <<>> /\ reply[c].kind = "response"
                 ELSE FALSE)
                => LET key == self.api_keys[self.current_index + 1] IN
                   /\ result'[c] = [kind |-> "returned", content |-> reply[c].content]
                   /\ self'.usage_tracker[key] >= self.usage_tracker[key] + frame[c].used]_vars

\* C10 witness: the request of a call with an empty prompt is with the delegate.
C10_Witness ==
    \E c \in Callers :
       /\ pc[c] = "ainvoke"
       /\ frame[c].prompt = <<>>
       /\ frame[c].messages = << [type |-> "human", content |-> <<>>] >>

\* C11: the check of a chat call rotates if and only if
\* 1,000,000 - usage[active key] < 3000.  With 3000 or more left the cursor
\* and the client are left as they are; with 2999 or less (a negative amount
\* included) the cursor moves to (current_index + 1) mod len(api_keys) and a
\* new client is built.
C11_RotatesIffBelowThreshold ==
    [][\A c \in Callers :
          (ctor = "ok" /\ pc[c] = "idle" /\ pc'[c] = "ainvoke")
          => LET left == 1000000 - self.usage_tracker[self.api_keys[self.current_index + 1]]
             IN /\ left >= 3000 =>
                      /\ self'.current_index = self.current_index
                      /\ self'.client = self.client
                      /\ ~frame'[c].switched
                /\ left <= 2999 =>
                      /\ self'.current_index = (self.current_index + 1) % Len(self.api_keys)
                      /\ self'.client # self.client
                      /\ frame'[c].switched]_vars

\* C11 witness: a request went out without rotation on a key with exactly
\* 3000 left, after an earlier call had rotated away from a low key.
C11_Witness ==
    /\ ctor = "ok"
    /\ clients_built = 2
    /\ \E c \in Callers :
          /\ pc[c] = "ainvoke"
          /\ ~frame[c].switched
          /\ self.usage_tracker[frame[c].checked_key] = 997000
          /\ frame[c].sent_on = self.client

\* C12 as stated: in sequential use with distinct keys, when a call that
\* rotated returns, used + words(response) is added to the counter of the key
\* active after the rotation, and the counter of the key active before the
\* call and every other counter are unchanged.
C12_RotatingCallChargesNewKeyOnly ==
    [][\A c \in Callers :
          (IF ctor = "ok" /\ pc[c] = "resume" /\ pc'[c] = "idle"
              THEN /\ reply[c].kind = "response"
                   /\ frame[c].switched
                   /\ Cardinality({self.api_keys[i] : i \in 1..Len(self.api_keys)})
                         = Len(self.api_keys)
              ELSE FALSE)
          => LET text == reply[c].content
                 words == Cardinality({i \in 1..Len(text) :
                              /\ text[i] \notin {" ", "\t", "\n"}
                              /\ (IF i = 1 THEN TRUE
                                  ELSE text[i - 1] \in {" ", "\t", "\n"})})
                 after == frame[c].sent_on.groq_api_key
                 before == frame[c].checked_key
             IN /\ self'.usage_tracker[after] =
                      self.usage_tracker[after] + frame[c].used + words
                /\ self'.usage_tracker[before] = self.usage_tracker[before]
                /\ \A k \in DOMAIN self.usage_tracker \ {after, before} :
                      self'.usage_tracker[k] = self.usage_tracker[k]]_vars

\* C12 amended: in sequential use with distinct keys, when a call that rotated
\* returns, used + words(response) is added to the counter of the key active
\* after the rotation and every other counter is unchanged; the counter of
\* the key active before the call is unchanged when the pool holds two or
\* more keys (with one key the rotation lands on that same key, which is the
\* one charged).
C12_RotatingCallChargesNewKey ==
    [][\A c \in Callers :
          (IF ctor = "ok" /\ pc[c] = "resume" /\ pc'[c] = "idle"
              THEN /\ reply[c].kind = "response"
                   /\ frame[c].switched
                   /\ Cardinality({self.api_keys[i] : i \in 1..Len(self.api_keys)})
                         = Len(self.api_keys)
              ELSE FALSE)
          => LET text == reply[c].content
                 words == Cardinality({i \in 1..Len(text) :
                              /\ text[i] \notin {" ", "\t", "\n"}
                              /\ (IF i = 1 THEN TRUE
                                  ELSE text[i - 1] \in {" ", "\t", "\n"})})
                 after == frame[c].sent_on.groq_api_key
                 before == frame[c].checked_key
             IN /\ after = self.api_keys[self.current_index + 1]
                /\ self'.usage_tracker =
                      [self.usage_tracker EXCEPT ![after] = @ + frame[c].used + words]
                /\ Len(self.api_keys) >= 2 =>
                      /\ before # after
                      /\ self'.usage_tracker[before] = self.usage_tracker[before]]_vars

\* C12 witness: on the pool a,b the second call rotated from a to b and
\* returned; b carries that call's charge and a still carries the first one's.
C12_Witness ==
    /\ ctor = "ok"
    /\ self.api_keys = << <<"a">>, <<"b">> >>
    /\ calls_made = 2
    /\ clients_built = 2
    /\ NoCallRunning
    /\ self.usage_tracker[<<"a">>] = 997001
    /\ self.usage_tracker[<<"b">>] = 3

\* C13: a triggered rotation always lands on position
\* (current_index + 1) mod len(api_keys), whatever the usage of the key
\* there, also when that key is low and another key of the pool is not; a chat
\* call moves the cursor at most that one step (only in its check before the
\* request), and the request goes out on the key at the new position.
C13_RotationSingleStep ==
    [][ctor = "ok" =>
          /\ \A c \in Callers :
                (pc[c] = "idle" /\ pc'[c] = "ainvoke" /\ frame'[c].switched)
                => /\ self'.current_index = (self.current_index + 1) % Len(self.api_keys)
                   /\ frame'[c].sent_on.groq_api_key =
                         self.api_keys[((self.current_index + 1) % Len(self.api_keys)) + 1]
          /\ self'.current_index # self.current_index
                => \E c \in Callers :
                      pc[c] = "idle" /\ pc'[c] = "ainvoke" /\ frame'[c].switched]_vars

\* C13 witness: a request is in flight on a key that was already low when the
\* call rotated onto it, while another key of the pool is not low.
C13_Witness ==
    /\ ctor = "ok"
    /\ \E c \in Callers :
          /\ pc[c] = "ainvoke"
          /\ frame[c].switched
          /\ frame[c].sent_on = self.client
          /\ 1000000 - self.usage_tracker[frame[c].sent_on.groq_api_key] < 3000
          /\ \E k \in DOMAIN self.usage_tracker : 1000000 - self.usage_tracker[k] >= 3000

\* C14: once every key of the pool is low (less than 3000 left) every key
\* stays low.  From then on a chat call is still accepted: each call made
\* moves the cursor exactly one step (mod the pool size) and sends its
\* request on the key there, a call whose request the delegate has completed
\* can always finish, it returns the text when the delegate responded, and it
\* ends with an error only when the delegate failed.
C14_ExhaustedPoolKeepsCycling ==
    /\ [](ctor = "ok" =>
            ((\A k \in DOMAIN self.usage_tracker : 1000000 - self.usage_tracker[k] < 3000)
             => /\ (NoCallRunning /\ calls_made < MaxCalls) => ENABLED SeqChatSend
                /\ \A c \in Callers :
                      pc[c] = "resume" => ENABLED (ChatReturn(c) \/ ChatRaise(c))))
    /\ [][(IF ctor = "ok"
              THEN \A k \in DOMAIN self.usage_tracker : 1000000 - self.usage_tracker[k] < 3000
              ELSE FALSE)
          => /\ \A k \in DOMAIN self'.usage_tracker : 1000000 - self'.usage_tracker[k] < 3000
             /\ calls_made' # calls_made
                   => \E c \in Callers :
                         /\ pc[c] = "idle" /\ pc'[c] = "ainvoke"
                         /\ self'.current_index =
                               (self.current_index + 1) % Len(self.api_keys)
                         /\ frame'[c].sent_on = self'.client
                         /\ self'.client.groq_api_key =
                               self.api_keys[self'.current_index + 1]
             /\ \A c \in Callers :
                   /\ (pc[c] = "resume" /\ pc'[c] # "resume" /\ reply[c].kind = "response")
                         => /\ pc'[c] = "idle"
                            /\ result'[c] = [kind |-> "returned", content |-> reply[c].content]
                   /\ (result'[c] = [kind |-> "raised"] /\ result'[c] # result[c])
                         => (pc[c] = "resume" /\ reply[c].kind = "error")]_vars

\* C14 witness: on a pool of two distinct keys, both low, the third call
\* rotated back to the first key and returned.
C14_Witness ==
    /\ ctor = "ok"
    /\ Len(self.api_keys) = 2
    /\ self.api_keys[1] # self.api_keys[2]
    /\ \A k \in DOMAIN self.usage_tracker : 1000000 - self.usage_tracker[k] < 3000
    /\ calls_made = 3
    /\ clients_built = 3
    /\ self.current_index = 0
    /\ NoCallRunning
    /\ \E c \in Callers : result[c].kind = "returned"
    /\ self.usage_tracker[self.api_keys[1]] > self.usage_tracker[self.api_keys[2]]

\* C15: a chat call invokes the delegate's ainvoke exactly once, whether the
\* delegate responds or fails: the call sends one request, the delegate's
\* completion is followed by the end of the call, and nothing after the
\* request was sent moves the cursor or replaces the client on behalf of
\* that call; a failed call leaves the whole instance as it was.
C15_OneRequestPerCall ==
    [][\A c \in Callers :
          /\ (pc[c] = "idle" /\ pc'[c] # "idle")
                => (pc'[c] = "ainvoke" /\ frame'[c].ainvoke_calls = 1)
          /\ (pc[c] = "ainvoke" /\ pc'[c] # "ainvoke")
                => (pc'[c] = "resume" /\ frame'[c] = frame[c] /\ self' = self)
          /\ (pc[c] = "resume" /\ (pc'[c] # "resume" \/ frame'[c] # frame[c]))
                => /\ pc'[c] = "idle"
                   /\ frame[c].ainvoke_calls = 1
                   /\ self'.current_index = self.current_index
                   /\ self'.client = self.client
                   /\ clients_built' = clients_built
                   /\ reply[c].kind = "error" => self' = self]_vars

\* C15 witness: the second call rotated from position 0 to position 1, its
\* request failed, and the cursor is still at position 1 with the client
\* built by that rotation.
C15_Witness ==
    /\ ctor = "ok"
    /\ Len(self.api_keys) >= 2
    /\ calls_made = 2
    /\ clients_built = 2
    /\ self.current_index = 1
    /\ self.client.serial = 2
    /\ \E c \in Callers : result[c] = [kind |-> "raised"]
    /\ NoCallRunning

\* C16: in every state of a constructed instance the client is bound to the
\* key at the cursor, api_keys[current_index].
C16_ClientBoundToActiveKey ==
    ctor = "ok" => self.client.groq_api_key = self.api_keys[self.current_index + 1]

\* C16 witness: after a rotation between two different keys, the cursor is at
\* position 1 and the client, the second one built, is bound to the key there.
C16_Witness ==
    /\ ctor = "ok"
    /\ self.current_index = 1
    /\ self.client.serial = 2
    /\ self.api_keys[2] # self.api_keys[1]
    /\ self.client.groq_api_key = self.api_keys[2]

\* C17: when chat calls overlap, the usage of a call that returns is added to
\* the counter of the key whose client sent that call's request.
C17_ChargedToSendingKey ==
    [][\A c \in Callers :
          (IF ctor = "ok" /\ pc[c] = "resume" /\ pc'[c] = "idle"
              THEN reply[c].kind = "response" ELSE FALSE)
          => LET text == reply[c].content
                 words == Cardinality({i \in 1..Len(text) :
                              /\ text[i] \notin {" ", "\t", "\n"}
                              /\ (IF i = 1 THEN TRUE
                                  ELSE text[i - 1] \in {" ", "\t", "\n"})})
                 sender == frame[c].sent_on.groq_api_key
             IN self'.usage_tracker =
                   [self.usage_tracker EXCEPT ![sender] = @ + frame[c].used + words]]_vars

\* the sum of all counters of a usage tracker
RECURSIVE TotalUsage(_)
TotalUsage(tracker) ==
    IF DOMAIN tracker = {} THEN 0
    ELSE LET k == CHOOSE x \in DOMAIN tracker : TRUE
         IN tracker[k] + TotalUsage([j \in DOMAIN tracker \ {k} |-> tracker[j]])

\* C18: when chat calls overlap at the suspension in ainvoke no usage update
\* is lost: every return of a call adds exactly its used + words(response) to
\* the sum of all counters (to one counter, the others unchanged), and no
\* other step changes any counter, so the sum grows by exactly the sum over
\* the calls that returned.
C18_NoLostUpdate ==
    [][ctor = "ok" =>
          /\ \A c \in Callers :
                (pc[c] = "resume" /\ pc'[c] = "idle" /\ reply[c].kind = "response")
                => LET text == reply[c].content
                       words == Cardinality({i \in 1..Len(text) :
                                    /\ text[i] \notin {" ", "\t", "\n"}
                                    /\ (IF i = 1 THEN TRUE
                                        ELSE text[i - 1] \in {" ", "\t", "\n"})})
                   IN /\ TotalUsage(self'.usage_tracker) =
                            TotalUsage(self.usage_tracker) + frame[c].used + words
                      /\ Cardinality({k \in DOMAIN self.usage_tracker :
                            self'.usage_tracker[k] # self.usage_tracker[k]}) = 1
          /\ (~ \E c \in Callers :
                  pc[c] = "resume" /\ pc'[c] = "idle" /\ reply[c].kind = "response")
                => self'.usage_tracker = self.usage_tracker]_vars

\* C18 witness: on the pool a,b a call sent on a returned while a later call,
\* which had rotated to b, was still with the delegate; its charge is in b's
\* counter and a's counter holds the charge of the call that made a low.
C18_Witness ==
    /\ ctor = "ok"
    /\ self.api_keys = << <<"a">>, <<"b">> >>
    /\ calls_made = 3
    /\ clients_built = 2
    /\ \E d \in Callers :
          /\ pc[d] = "ainvoke"
          /\ frame[d].switched
          /\ frame[d].sent_on.serial = 2
          /\ \E c \in Callers \ {d} : result[c].kind = "returned"
    /\ self.usage_tracker[<<"a">>] >= 997001
    /\ self.usage_tracker[<<"b">>] > 0
    /\ TotalUsage(self.usage_tracker) = self.usage_tracker[<<"a">>] + self.usage_tracker[<<"b">>]

\* C19: the usage tracker holds one counter per distinct key string, so two
\* positions of the pool holding the same string share a counter: a charge
\* made while either position is active is seen at both, and when that key
\* is low a rotation from one of the positions to the other changes
\* current_index but leaves the active key low.
C19_DuplicateKeysShareCounter ==
    /\ [](ctor = "ok" =>
            /\ DOMAIN self.usage_tracker = {self.api_keys[i] : i \in 1..Len(self.api_keys)}
            /\ Cardinality(DOMAIN self.usage_tracker) <= Len(self.api_keys))
    /\ [][\A c \in Callers :
             (IF ctor = "ok" /\ pc[c] = "idle" /\ pc'[c] = "ainvoke"
                 THEN /\ Len(self.api_keys) >= 2
                      /\ 1000000 - self.usage_tracker[self.api_keys[self.current_index + 1]] < 3000
                      /\ self.api_keys[((self.current_index + 1) % Len(self.api_keys)) + 1]
                            = self.api_keys[self.current_index + 1]
                 ELSE FALSE)
             => /\ self'.current_index # self.current_index
                /\ self'.api_keys[self'.current_index + 1] = self.api_keys[self.current_index + 1]
                /\ 1000000 - self'.usage_tracker[self'.api_keys[self'.current_index + 1]] < 3000
                /\ self'.usage_tracker = self.usage_tracker]_vars

\* C19 witness: on the pool a,a (one counter for two positions) the key ran
\* low while position 0 was active, the next call rotated to position 1 and
\* its charge was added to the same counter.
C19_Witness ==
    /\ ctor = "ok"
    /\ self.api_keys = << <<"a">>, <<"a">> >>
    /\ Cardinality(DOMAIN self.usage_tracker) = 1
    /\ self.current_index = 1
    /\ calls_made = 2
    /\ NoCallRunning
    /\ self.usage_tracker[<<"a">>] = 2 * 997000 + 2

====
